---- MODULE Spec2Model ----
(***************************************************************************)
(* The denoisers of AdvBox/denoisers: Denoise.__call__ / _apply of the     *)
(* base class and the twelve _apply search loops of denoising_method.py.   *)
(*                                                                         *)
(* An ndarray image is a record [C, H, W, px] with px indexed <<c, i, j>>  *)
(* (channel first); an OpenCV image is the same record with px indexed     *)
(* <<i, j, c>> (channel last).  A float pixel value f is held as the       *)
(* integer f * FloatUnit, so that [0, 1] is 0 .. FloatUnit and a uint8     *)
(* level u divided by 255 is exactly u * (FloatUnit \div U8Max).           *)
(***************************************************************************)
EXTENDS Integers, Sequences, FiniteSets, TLC

VARIABLES
    variant,          \* the class of the denoiser object
    input,            \* denoising.input, the image held by the record
    pure_lib,         \* TRUE: the image library is one fixed function (memo)
    pc,               \* position of the call: idle, loop, predict, accept, done, raised
    steps,            \* the steps argument of _apply
    step,             \* the loop index (step / i)
    patch_size,       \* DCTCompression's outer loop index
    stride,           \* PCACompression's stride
    denoising_image,  \* the working image built before the loop
    img,              \* the candidate of the current step
    prediction,       \* what model.predict returned for the candidate
    img_label,        \* np.argmax of the prediction
    accepted,         \* try_accept_the_example returned True
    example,          \* what the record holds as its accepted example
    ret,              \* the value the call returned
    exc,              \* the exception that left the call
    param,            \* the transform parameter of the current step
    prev_param,       \* the transform parameter of the previous evaluated step
    orig,             \* history: denoising.input as it was when the call began
    nPredict,         \* history: number of model.predict calls of this call
    nAccept,          \* history: number of try_accept_the_example calls
    last_predict,     \* history: argument and result of the last model.predict
    last_accept,      \* history: arguments of the last try_accept_the_example
    memo,             \* history: library calls made, <<key, result>>
    cands,            \* history: <<param, candidate>> of the steps so far
    draw              \* the random draws of the current step and their locals

vars == <<variant, input, pure_lib, pc, steps, step, patch_size, stride,
          denoising_image, img, prediction, img_label, accepted, example, ret,
          exc, param, prev_param, orig, nPredict, nAccept, last_predict,
          last_accept, memo, cands, draw>>

----------------------------------------------------------------------------
(* Bounds of the model *)

MaxSteps == 2
NoiseMag == 300
MaxWideSteps == 11
MaxHeight == 6
MaxPercent == 34

(* Program constants *)

U8Max == 255
Window == 10

FloatUnit == 2 * U8Max

(* Python's None, by the kind of value it stands in for *)
None == "None"
NoImage == [C |-> 0, H |-> 0, W |-> 0, px |-> <<>>]
NoParam == <<>>
NoLabel == 0 - 1
NoExample == [image |-> NoImage, label |-> NoLabel]
NoPredict == [img |-> NoImage, result |-> <<>>]
NoAccept == [img |-> NoImage, label |-> NoLabel]
NoDraw == [kind |-> "none"]

(* The record the caller passes in *)
Record == "denoising"

KernelVariants == {"GaussianBlur", "MedianBlur", "BoxFilter", "MeanFilter"}
OpenCvVariants == KernelVariants \cup
    {"BilateralFilter", "JPEGCompression", "DCTCompression", "PCACompression"}
Denoisers == OpenCvVariants \cup
    {"PixelDeflection", "GaussianNoise", "SaltPepperNoise", "ResizePadding"}
Variants == Denoisers \cup {"Denoise"}

----------------------------------------------------------------------------
(* Images *)

NdIdx(C, H, W) == (0 .. C - 1) \X (0 .. H - 1) \X (0 .. W - 1)
CvIdx(H, W, C) == (0 .. H - 1) \X (0 .. W - 1) \X (0 .. C - 1)

Flat(C, H, W, v) == [C |-> C, H |-> H, W |-> W, px |-> [t \in NdIdx(C, H, W) |-> v]]
CvFlat(C, H, W, v) == [C |-> C, H |-> H, W |-> W, px |-> [t \in CvIdx(H, W, C) |-> v]]

Ramp(C, H, W) ==
    [C |-> C, H |-> H, W |-> W,
     px |-> [t \in NdIdx(C, H, W) |-> 5 + 45 * (t[1] * H * W + t[2] * W + t[3])]]

Checker(C, H, W) ==
    [C |-> C, H |-> H, W |-> W,
     px |-> [t \in NdIdx(C, H, W) |-> IF (t[2] + t[3]) % 2 = 0 THEN 102 ELSE 408]]

Values(im) == {im.px[t] : t \in DOMAIN im.px}

InRange(im) == \A t \in DOMAIN im.px : 0 <= im.px[t] /\ im.px[t] <= FloatUnit

StandardInputs == {Flat(3, 2, 1, 255), Flat(3, 2, 1, FloatUnit), Ramp(3, 2, 1)}

InputsOf(v) ==
    StandardInputs
    \cup (IF v = "PixelDeflection" THEN {Checker(1, 5, 5)} ELSE {})
    \cup (IF v = "ResizePadding" THEN {Flat(3, 5, 2, 255)} ELSE {})

(* astype(np.uint8) *)
ToU8(x) == x % (U8Max + 1)

(* ndarray2opencv: transpose to (H, W, C), (img * 255).astype(uint8), RGB2BGR *)
ndarray2opencv(im) ==
    [C |-> im.C, H |-> im.H, W |-> im.W,
     px |-> [t \in CvIdx(im.H, im.W, im.C) |->
                ToU8((im.px[<<im.C - 1 - t[3], t[1], t[2]>>] * U8Max) \div FloatUnit)]]

opencv2ndarray_unscaled(im) ==
    [C |-> im.C, H |-> im.H, W |-> im.W,
     px |-> [t \in NdIdx(im.C, im.H, im.W) |->
                im.px[<<t[2], t[3], im.C - 1 - t[1]>>] * FloatUnit]]

(* opencv2ndarray: BGR2RGB, float32, img / 255, transpose to (C, H, W) *)
opencv2ndarray(im) ==
    [C |-> im.C, H |-> im.H, W |-> im.W,
     px |-> [t \in NdIdx(im.C, im.H, im.W) |->
                (im.px[<<t[2], t[3], im.C - 1 - t[1]>>] * FloatUnit) \div U8Max]]

(* np.transpose(img, (1, 2, 0)) and np.transpose(img, (2, 0, 1)) *)
ToHWC(im) ==
    [C |-> im.C, H |-> im.H, W |-> im.W,
     px |-> [t \in CvIdx(im.H, im.W, im.C) |-> im.px[<<t[3], t[1], t[2]>>]]]
ToCHW(im) ==
    [C |-> im.C, H |-> im.H, W |-> im.W,
     px |-> [t \in NdIdx(im.C, im.H, im.W) |-> im.px[<<t[2], t[3], t[1]>>]]]

----------------------------------------------------------------------------
(* The loops *)

DefaultSteps(v) ==
    IF v \in KernelVariants \cup {"BilateralFilter", "PixelDeflection"} THEN 5 ELSE 10

(* range(steps), range(steps * 2), range(steps * 10) *)
LoopBound_single(v, s) == s
LoopBound(v, s) ==
    CASE v \in {"JPEGCompression", "DCTCompression", "PCACompression"} -> s * 2
      [] v \in {"GaussianNoise", "SaltPepperNoise"} -> s * 10
      [] OTHER -> s

(* if kernel_size == 1: continue / if i == 0: continue / if step == 0: continue *)
SkipsStep_never(v, st) == FALSE
SkipsStep(v, st) ==
    CASE v \in KernelVariants -> st * 2 + 1 = 1
      [] v \in {"PixelDeflection", "GaussianNoise", "SaltPepperNoise", "ResizePadding"} -> st = 0
      [] OTHER -> FALSE

(* int(proportion * H * W) with proportion = i / 100 *)
Deflections(im, i) == (i * im.H * im.W) \div 100

(* int(H * step / steps / 4) *)
MaxGrow(n, st, s) == (n * st) \div (s * 4)

(* The transform parameter of step st: kernel size; (d, sigmaColor,
   sigmaSpace); JPEG quality; (psize, sigma); retained dimension; 100 * var;
   100 * proportion; (100 * proportion, deflections); (max_h, max_w). *)
ParamOf(v, st, ps, strd, s, im) ==
    CASE v \in KernelVariants -> <<st * 2 + 1>>
      [] v = "BilateralFilter" -> <<1, 50, 50>>
      [] v = "JPEGCompression" -> <<100 - st * 5>>
      [] v = "DCTCompression" -> <<(ps + 1) * 8, st * 5>>
      [] v = "PCACompression" -> <<im.H - strd * st>>
      [] v \in {"GaussianNoise", "SaltPepperNoise"} -> <<st>>
      [] v = "PixelDeflection" -> <<st, Deflections(im, st)>>
      [] v = "ResizePadding" -> <<MaxGrow(im.H, st, s), MaxGrow(im.W, st, s)>>
      [] OTHER -> <<>>

----------------------------------------------------------------------------
(* The image library (cv2): a call returns a uint8 image of the shape of its
   argument.  With pure_lib the library is a function: a call repeated with
   the same arguments returns what it returned before. *)

U8Levels == {0, U8Max}

LibOutputs(work) ==
    {work} \cup {CvFlat(work.C, work.H, work.W, v) : v \in U8Levels}

LibResults(key, work) ==
    IF pure_lib /\ \E e \in memo : e[1] = key
    THEN {e[2] : e \in {m \in memo : m[1] = key}}
    ELSE LibOutputs(work)

----------------------------------------------------------------------------
(* GaussianNoise.gaussian_noise: img + g_noise, then np.clip(img, 0, 1).
   The noise field is one draw per element; the model draws one of
   -NoiseMag, 0, NoiseMag for the whole field. *)

Clip(x) == IF x < 0 THEN 0 ELSE IF x > FloatUnit THEN FloatUnit ELSE x

NoiseDraws == {0 - NoiseMag, 0, NoiseMag}

gaussian_noise_noclip(im, g) == [im EXCEPT !.px = [t \in DOMAIN im.px |-> im.px[t] + g]]
gaussian_noise(im, g) == [im EXCEPT !.px = [t \in DOMAIN im.px |-> Clip(im.px[t] + g)]]

(* SaltPepperNoise.salt_pepper_noise: for each (i, j) one draw r in [0, 1):
   r < threshold writes 1 to every channel, r > 1 - threshold writes 0,
   anything else keeps the pixel; threshold = (i / 100) / 2. *)
SaltPepperChoices(i) ==
    (IF i > 0 THEN {"salt", "pepper"} ELSE {}) \cup (IF i <= 100 THEN {"keep"} ELSE {})

salt_pepper_noise(im, m) ==
    [im EXCEPT !.px = [t \in DOMAIN im.px |->
        CASE m[<<t[2], t[3]>>] = "salt" -> FloatUnit
          [] m[<<t[2], t[3]>>] = "pepper" -> 0
          [] OTHER -> im.px[t]]]

SaltPepperOutcomes(im, i) ==
    {salt_pepper_noise(im, m) :
        m \in [(0 .. im.H - 1) \X (0 .. im.W - 1) -> SaltPepperChoices(i)]}

(* PixelDeflection.pixel_deflection: per round and per channel c, a target
   (x, y) = (randint(0, H - 1), randint(0, W - 1)) and an offset (a, b) drawn
   from randint(-window, window) until the source lies inside the image;
   then img[c, x, y] = img[c, x + a, y + b]. *)
Offsets_loose(n, x) == {a \in (0 - Window) .. (Window - 1) : x + a <= n /\ x + a > 0}
Offsets(n, x) == {a \in (0 - Window) .. (Window - 1) : x + a < n /\ x + a > 0}

DeflectImage(im, c) ==
    UNION {{[im EXCEPT !.px[<<c, t[1], t[2]>>] = im.px[<<c, t[1] + o[1], t[2] + o[2]>>]] :
                o \in Offsets(im.H, t[1]) \X Offsets(im.W, t[2])} :
            t \in (0 .. im.H - 2) \X (0 .. im.W - 2)}

DeflectOne(S, c) == UNION {DeflectImage(im, c) : im \in S}

RECURSIVE DeflectChannels(_, _, _)
DeflectChannels(S, c, C) ==
    IF c >= C THEN S ELSE DeflectChannels(DeflectOne(S, c), c + 1, C)

RECURSIVE DeflectRounds(_, _)
DeflectRounds(S, n) ==
    IF n <= 0 THEN S
    ELSE DeflectRounds(UNION {DeflectChannels({im}, 0, im.C) : im \in S}, n - 1)

pixel_deflection(im, i) == DeflectRounds({im}, Deflections(im, i))

(* F.resize (bilinear): every pixel of the result is a convex combination of
   pixels of the source; resizing to the same size returns the source. *)
Resize(im, nh, nw) ==
    IF nh = im.H /\ nw = im.W THEN {im}
    ELSE {[C |-> im.C, H |-> nh, W |-> nw, px |-> f] :
            f \in [CvIdx(nh, nw, im.C) -> Values(im)]}

(* F.pad(img, [left, top, right, bottom]), constant fill 0 *)
Pad(im, pd) ==
    [C |-> im.C, H |-> im.H + pd[2] + pd[4], W |-> im.W + pd[1] + pd[3],
     px |-> [t \in CvIdx(im.H + pd[2] + pd[4], im.W + pd[1] + pd[3], im.C) |->
                IF /\ t[1] >= pd[2] /\ t[1] < pd[2] + im.H
                   /\ t[2] >= pd[1] /\ t[2] < pd[1] + im.W
                THEN im.px[<<t[1] - pd[2], t[2] - pd[1], t[3]>>]
                ELSE 0]]

(* ResizePadding: the draws of one step and the padded candidates *)
ResizePadDraws(mh, mw) ==
    {d \in [resize_h : 0 .. mh, resize_w : 0 .. mw, pad_left : 0 .. mh, pad_top : 0 .. mw] :
        d.pad_left <= mh - d.resize_h /\ d.pad_top <= mw - d.resize_w}

PadParam_noresize(d, mh, mw) ==
    <<d.pad_left, mh - d.pad_left, d.pad_top, mw - d.pad_top>>
PadParam(d, mh, mw) ==
    <<d.pad_left, mh - d.resize_h - d.pad_left, d.pad_top, mw - d.resize_w - d.pad_top>>

(* The locals of one step of ResizePadding._apply after its draws *)
ResizePadLocals(d, mh, mw) ==
    [kind |-> "resize_pad", max_h |-> mh, max_w |-> mw,
     resize_h |-> d.resize_h, resize_w |-> d.resize_w,
     pad_left |-> PadParam(d, mh, mw)[1], pad_right |-> PadParam(d, mh, mw)[2],
     pad_top |-> PadParam(d, mh, mw)[3], pad_bottom |-> PadParam(d, mh, mw)[4]]

ResizePadSteps(hwc, mh, mw) ==
    UNION {{[img |-> ToCHW(Pad(r, PadParam(d, mh, mw))),
             draw |-> ResizePadLocals(d, mh, mw)] :
                r \in Resize(hwc, hwc.H + d.resize_h, hwc.W + d.resize_w)} :
            d \in ResizePadDraws(mh, mw)}

ResizePadOutcomes(hwc, mh, mw) == {o.img : o \in ResizePadSteps(hwc, mh, mw)}

----------------------------------------------------------------------------
(* The classifier and the record *)

(* model.predict returns one score per class *)
Predictions == {<<0, 1>>, <<1, 0>>, <<1, 1>>}

ArgMin(v) == CHOOSE k \in 0 .. Len(v) - 1 :
    /\ \A j \in 0 .. Len(v) - 1 : v[j + 1] >= v[k + 1]
    /\ \A j \in 0 .. k - 1 : v[j + 1] > v[k + 1]

(* np.argmax: the first index of the greatest score *)
ArgMax(v) == CHOOSE k \in 0 .. Len(v) - 1 :
    /\ \A j \in 0 .. Len(v) - 1 : v[j + 1] <= v[k + 1]
    /\ \A j \in 0 .. k - 1 : v[j + 1] < v[k + 1]

(* denoising.try_accept_the_example(img, label): checks the candidate, records
   it in the record when it is accepted, and returns whether it was. *)
try_accept_the_example(ex, im, label, b) ==
    IF b THEN [image |-> im, label |-> label] ELSE ex

(* if denoising.try_accept_the_example(...): return denoising -- otherwise the
   loop goes on to the next step *)
AfterCallback_ignored(b, st) == [pc |-> "loop", step |-> st + 1, ret |-> None]
AfterCallback(b, st) ==
    IF b THEN [pc |-> "done", step |-> st, ret |-> Record]
    ELSE [pc |-> "loop", step |-> st + 1, ret |-> None]

(* An exception raised inside the loop is caught nowhere: it leaves _apply and
   __call__ *)
RaiseOut_caught(e, st) == [pc |-> "loop", step |-> st + 1, exc |-> None]
RaiseOut(e, st) == [pc |-> "raised", step |-> st, exc |-> e]

----------------------------------------------------------------------------
(* The state machine of one call denoiser(denoising, steps=s) *)

StepChoices(v) ==
    (0 .. MaxSteps) \cup (IF pure_lib THEN {} ELSE {DefaultSteps(v)})

InitRest(pure) ==
    /\ pure_lib = pure
    /\ pc = "idle"
    /\ steps = 0 /\ step = 0 /\ patch_size = 0 /\ stride = 0
    /\ denoising_image = NoImage /\ img = NoImage
    /\ prediction = <<>> /\ img_label = NoLabel
    /\ accepted = FALSE /\ example = NoExample
    /\ ret = None /\ exc = None
    /\ param = NoParam /\ prev_param = NoParam
    /\ orig = input
    /\ nPredict = 0 /\ nAccept = 0
    /\ last_predict = NoPredict /\ last_accept = NoAccept
    /\ memo = {} /\ cands = {}
    /\ draw = NoDraw

InitWith(pure) ==
    /\ variant \in Variants
    /\ input \in InputsOf(variant)
    /\ InitRest(pure)

Init == InitWith(FALSE)
InitPure == InitWith(TRUE)

(* What _apply does before its loop *)

(* stride = int(denoising.input.shape[1] / newsteps) *)
PcaStride_ceil(h, newsteps) == (h + newsteps - 1) \div newsteps
PcaStride(h, newsteps) == h \div newsteps

PrologueExc(v, s) ==
    CASE v = "Denoise" -> "NotImplementedError"
      [] v \in {"PCACompression", "GaussianNoise"} /\ LoopBound(v, s) = 0 -> "ZeroDivisionError"
      [] OTHER -> None

PrologueImage(v, im) ==
    CASE v \in OpenCvVariants -> ndarray2opencv(im)
      [] v = "PixelDeflection" -> im
      [] v = "ResizePadding" -> ToHWC(im)
      [] OTHER -> NoImage

(* Denoise.__call__ -> _apply, up to the loop, with steps drawn from S *)
CallWith(S) ==
    /\ pc = "idle"
    /\ \E s \in S :
        /\ steps' = s
        /\ exc' = PrologueExc(variant, s)
        /\ pc' = IF PrologueExc(variant, s) = None THEN "loop" ELSE "raised"
        /\ stride' = IF variant = "PCACompression" /\ LoopBound(variant, s) > 0
                     THEN PcaStride(input.H, LoopBound(variant, s)) ELSE 0
        /\ img' = IF variant = "GaussianNoise" /\ PrologueExc(variant, s) = None
                  THEN input ELSE NoImage
    /\ denoising_image' = IF variant = "Denoise" THEN NoImage
                          ELSE PrologueImage(variant, input)
    /\ step' = 0 /\ patch_size' = 0
    /\ orig' = input
    /\ UNCHANGED <<draw, variant, input, pure_lib, prediction, img_label, accepted,
                   example, ret, param, prev_param, nPredict, nAccept,
                   last_predict, last_accept, memo, cands>>

Call == CallWith(StepChoices(variant))

InLoop == pc = "loop" /\ step < LoopBound(variant, steps)

(* continue *)
Skip ==
    /\ InLoop
    /\ SkipsStep(variant, step)
    /\ step' = step + 1
    /\ UNCHANGED <<draw, variant, input, pure_lib, pc, steps, patch_size, stride,
                   denoising_image, img, prediction, img_label, accepted,
                   example, ret, exc, param, prev_param, orig, nPredict,
                   nAccept, last_predict, last_accept, memo, cands>>

CurrentParam == ParamOf(variant, step, patch_size, stride, steps, input)

LibKey == <<CurrentParam, denoising_image>>

(* The candidates one step can produce: the candidate, denoising.input and the
   working image after the transform, and the library call made. *)
TransformResults ==
    CASE variant \in OpenCvVariants \ {"PCACompression"} ->
            {[img |-> opencv2ndarray(o), input |-> input, work |-> denoising_image,
              lib |-> {<<LibKey, o>>}, draw |-> NoDraw] : o \in LibResults(LibKey, denoising_image)}
      [] variant = "PCACompression" ->
            {[img |-> opencv2ndarray(o), input |-> input, work |-> o,
              lib |-> {<<LibKey, o>>}, draw |-> NoDraw] : o \in LibResults(LibKey, denoising_image)}
      [] variant = "PixelDeflection" ->
            {[img |-> r, input |-> r, work |-> r, lib |-> {}, draw |-> NoDraw] :
                r \in pixel_deflection(denoising_image, step)}
      [] variant = "GaussianNoise" ->
            {[img |-> gaussian_noise(img, g), input |-> input, work |-> denoising_image,
              lib |-> {}, draw |-> NoDraw] : g \in NoiseDraws}
      [] variant = "SaltPepperNoise" ->
            {[img |-> r, input |-> r, work |-> denoising_image, lib |-> {}, draw |-> NoDraw] :
                r \in SaltPepperOutcomes(input, step)}
      [] variant = "ResizePadding" ->
            {[img |-> o.img, input |-> input, work |-> denoising_image, lib |-> {},
              draw |-> o.draw] :
                o \in ResizePadSteps(denoising_image, CurrentParam[1], CurrentParam[2])}
      [] OTHER -> {}

(* One step's transform *)
Transform ==
    /\ InLoop
    /\ ~SkipsStep(variant, step)
    /\ \E r \in TransformResults :
        /\ img' = r.img
        /\ input' = r.input
        /\ denoising_image' = r.work
        /\ draw' = r.draw
        /\ memo' = IF pure_lib THEN memo \cup r.lib ELSE memo
        /\ cands' = IF pure_lib /\ variant \in OpenCvVariants THEN cands \cup {<<CurrentParam, r.img>>} ELSE cands
    /\ prev_param' = param
    /\ param' = CurrentParam
    /\ pc' = "predict"
    /\ last_predict' = NoPredict /\ last_accept' = NoAccept
    /\ UNCHANGED <<variant, pure_lib, steps, step, patch_size, stride,
                   prediction, img_label, accepted, example, ret, exc, orig,
                   nPredict, nAccept>>

Raised(e) ==
    /\ pc' = RaiseOut(e, step).pc
    /\ step' = RaiseOut(e, step).step
    /\ exc' = RaiseOut(e, step).exc
    /\ UNCHANGED <<draw, variant, input, pure_lib, steps, patch_size, stride,
                   denoising_image, img, prediction, img_label, accepted,
                   example, ret, param, prev_param, orig, nPredict, nAccept,
                   last_predict, last_accept, memo, cands>>

(* The transform of a step raises *)
TransformRaises ==
    /\ InLoop
    /\ ~SkipsStep(variant, step)
    /\ Raised("TransformError")

(* img_label = np.argmax(self.model.predict(img)) *)
Predict ==
    /\ pc = "predict"
    /\ \E v \in Predictions :
        /\ prediction' = v
        /\ img_label' = ArgMax(v)
        /\ last_predict' = [img |-> img, result |-> v]
    /\ nPredict' = nPredict + 1
    /\ pc' = "accept"
    /\ UNCHANGED <<draw, variant, input, pure_lib, steps, step, patch_size, stride,
                   denoising_image, img, accepted, example, ret, exc, param,
                   prev_param, orig, nAccept, last_accept, memo, cands>>

(* model.predict raises *)
PredictRaises ==
    /\ pc = "predict"
    /\ Raised("PredictError")

(* if denoising.try_accept_the_example(np.squeeze(img), img_label): return denoising *)
TryAccept ==
    /\ pc = "accept"
    /\ \E b \in BOOLEAN :
        /\ accepted' = b
        /\ example' = try_accept_the_example(example, img, img_label, b)
        /\ pc' = AfterCallback(b, step).pc
        /\ step' = AfterCallback(b, step).step
        /\ ret' = AfterCallback(b, step).ret
    /\ last_accept' = [img |-> img, label |-> img_label]
    /\ nAccept' = nAccept + 1
    /\ UNCHANGED <<draw, variant, input, pure_lib, steps, patch_size, stride,
                   denoising_image, img, prediction, img_label, exc, param,
                   prev_param, orig, nPredict, last_predict, memo, cands>>

LoopOver == pc = "loop" /\ step >= LoopBound(variant, steps)

(* DCTCompression: the inner loop is over, the next patch size begins *)
NextPatch ==
    /\ LoopOver
    /\ variant = "DCTCompression" /\ patch_size + 1 < 2
    /\ patch_size' = patch_size + 1
    /\ step' = 0
    /\ UNCHANGED <<draw, variant, input, pure_lib, pc, steps, stride,
                   denoising_image, img, prediction, img_label, accepted,
                   example, ret, exc, param, prev_param, orig, nPredict,
                   nAccept, last_predict, last_accept, memo, cands>>

(* the loop is over: return denoising *)
Return ==
    /\ LoopOver
    /\ ~(variant = "DCTCompression" /\ patch_size + 1 < 2)
    /\ pc' = "done"
    /\ ret' = Record
    /\ UNCHANGED <<draw, variant, input, pure_lib, steps, step, patch_size, stride,
                   denoising_image, img, prediction, img_label, accepted,
                   example, exc, param, prev_param, orig, nPredict, nAccept,
                   last_predict, last_accept, memo, cands>>

Next ==
    \/ Call
    \/ Skip
    \/ Transform
    \/ TransformRaises
    \/ Predict
    \/ PredictRaises
    \/ TryAccept
    \/ NextPatch
    \/ Return

Spec == Init /\ [][Next]_vars

(* The same calls over wider budgets and image shapes, for the variants whose
   parameter arithmetic depends on them *)
WideVariants == {"JPEGCompression", "PCACompression", "ResizePadding"}

WideInputs(v) ==
    CASE v = "PCACompression" -> {Flat(3, h, 1, 255) : h \in 1 .. MaxHeight}
      [] v = "ResizePadding" -> {Flat(1, 5, 2, 255), Flat(1, 8, 12, 255)}
      [] OTHER -> {Ramp(3, 2, 1)}

InitWide ==
    /\ variant \in WideVariants
    /\ input \in WideInputs(variant)
    /\ InitRest(FALSE)

CallWide == CallWith(0 .. MaxWideSteps)

NextWide ==
    \/ CallWide
    \/ Skip
    \/ Transform
    \/ TransformRaises
    \/ Predict
    \/ PredictRaises
    \/ TryAccept
    \/ Return

SpecWide == InitWide /\ [][NextWide]_vars

(* PixelDeflection.pixel_deflection(img, i / 100) statement by statement.
   draw holds the locals: deflections, the channel c, the target (x, y), the
   offset (a, b), the rounds completed, and for the current round the list of
   the copies made (target, offset and the value read). img is the array the
   caller passed, so every write is a write to denoising.input as well. *)
DeflectInputs == {Ramp(1, 2, 2), Ramp(2, 3, 2), Ramp(1, 2, 3)}

(* np.random.randint(lo, hi): hi is exclusive *)
RandInt(lo, hi) == lo .. (hi - 1)

Undrawn == 0 - Window - 1

DeflectLocals(n, r, c, used) ==
    [kind |-> "deflect", deflections |-> n, rounds |-> r, c |-> c,
     x |-> Undrawn, y |-> Undrawn, a |-> Undrawn, b |-> Undrawn, used |-> used]

InitDeflect ==
    /\ variant = "PixelDeflection"
    /\ input \in DeflectInputs
    /\ pure_lib = FALSE
    /\ pc = "pd_call"
    /\ steps = MaxPercent + 1 /\ step \in 1 .. MaxPercent
    /\ patch_size = 0 /\ stride = 0
    /\ denoising_image = input /\ img = NoImage
    /\ prediction = <<>> /\ img_label = NoLabel
    /\ accepted = FALSE /\ example = NoExample
    /\ ret = None /\ exc = None
    /\ param = NoParam /\ prev_param = NoParam
    /\ orig = input
    /\ nPredict = 0 /\ nAccept = 0
    /\ last_predict = NoPredict /\ last_accept = NoAccept
    /\ memo = {} /\ cands = {}
    /\ draw = NoDraw

DeflectFrame ==
    UNCHANGED <<variant, pure_lib, steps, step, patch_size, stride, prediction,
                img_label, accepted, example, param, prev_param, orig, nPredict,
                nAccept, last_predict, last_accept, memo, cands>>

(* C, H, W = img.shape; deflections = int(proportion * H * W); window = 10 *)
DeflectEnter ==
    /\ pc = "pd_call"
    /\ pc' = "pd_while"
    /\ draw' = DeflectLocals(Deflections(input, step), 0, 0, <<>>)
    /\ UNCHANGED <<input, denoising_image, img, ret, exc>>
    /\ DeflectFrame

(* while deflections > 0: for c in range(C): *)
DeflectRound ==
    /\ pc = "pd_while" /\ draw.deflections > 0
    /\ pc' = "pd_for"
    /\ draw' = DeflectLocals(draw.deflections, draw.rounds, 0, <<>>)
    /\ UNCHANGED <<input, denoising_image, img, ret, exc>>
    /\ DeflectFrame

(* x, y = np.random.randint(0, H - 1), np.random.randint(0, W - 1) *)
DeflectTarget ==
    /\ pc = "pd_for" /\ draw.c < input.C
    /\ \E x \in RandInt(0, input.H - 1), y \in RandInt(0, input.W - 1) :
          draw' = [draw EXCEPT !.x = x, !.y = y]
    /\ pc' = "pd_offset"
    /\ UNCHANGED <<input, denoising_image, img, ret, exc>>
    /\ DeflectFrame

(* if x + a < H and x + a > 0 and y + b < W and y + b > 0 *)
PassesTest(d) == d.a \in Offsets(input.H, d.x) /\ d.b \in Offsets(input.W, d.y)

(* a, b = np.random.randint(-1 * window, window), np.random.randint(-1 * window, window)
   and the test on them: break with a passing pair, otherwise the pair is
   dropped and the while True loop goes round *)
DeflectOffset ==
    /\ pc = "pd_offset"
    /\ \E a \in RandInt(0 - Window, Window), b \in RandInt(0 - Window, Window) :
          IF PassesTest([draw EXCEPT !.a = a, !.b = b])
          THEN pc' = "pd_copy" /\ draw' = [draw EXCEPT !.a = a, !.b = b]
          ELSE pc' = "pd_retry" /\ draw' = draw
    /\ UNCHANGED <<input, denoising_image, img, ret, exc>>
    /\ DeflectFrame

(* while True: the next iteration after a rejected pair *)
DeflectRetry ==
    /\ pc = "pd_retry"
    /\ pc' = "pd_offset"
    /\ UNCHANGED <<input, denoising_image, img, ret, exc, draw>>
    /\ DeflectFrame

(* numpy indexing along an axis of length n: a negative index counts from the
   end, an index outside -n .. n-1 raises IndexError *)
IndexOk(i, n) == 0 - n <= i /\ i < n
PyIndex(i, n) == IF i < 0 THEN i + n ELSE i

(* img[c, x, y] = img[c, x + a, y + b] *)
DeflectCopy ==
    /\ pc = "pd_copy"
    /\ IF IndexOk(draw.x + draw.a, input.H) /\ IndexOk(draw.y + draw.b, input.W)
       THEN LET src == <<draw.c, PyIndex(draw.x + draw.a, input.H),
                         PyIndex(draw.y + draw.b, input.W)>>
                v == input.px[src]
            IN /\ input' = [input EXCEPT !.px[<<draw.c, draw.x, draw.y>>] = v]
               /\ denoising_image' = input'
               /\ draw' = DeflectLocals(draw.deflections, draw.rounds, draw.c + 1,
                              Append(draw.used, [x |-> draw.x, y |-> draw.y, a |-> draw.a,
                                                 b |-> draw.b, src |-> src, read |-> v]))
               /\ pc' = "pd_for"
               /\ exc' = exc
       ELSE /\ exc' = "IndexError"
            /\ pc' = "pd_raised"
            /\ UNCHANGED <<input, denoising_image, draw>>
    /\ UNCHANGED <<img, ret>>
    /\ DeflectFrame

(* deflections -= 1 *)
DeflectRoundEnd ==
    /\ pc = "pd_for" /\ draw.c >= input.C
    /\ pc' = "pd_while"
    /\ draw' = DeflectLocals(draw.deflections - 1, draw.rounds + 1, 0, <<>>)
    /\ UNCHANGED <<input, denoising_image, img, ret, exc>>
    /\ DeflectFrame

(* return img *)
DeflectReturn ==
    /\ pc = "pd_while" /\ draw.deflections <= 0
    /\ pc' = "pd_done"
    /\ img' = input
    /\ ret' = "img"
    /\ UNCHANGED <<input, denoising_image, draw, exc>>
    /\ DeflectFrame

NextDeflect ==
    \/ DeflectEnter
    \/ DeflectRound
    \/ DeflectTarget
    \/ DeflectOffset
    \/ DeflectRetry
    \/ DeflectCopy
    \/ DeflectRoundEnd
    \/ DeflectReturn

(* An offset draw that passes the rejection test; uniform draws make it
   happen eventually whenever a passing offset exists *)
DeflectOffsetPasses == DeflectOffset /\ pc' = "pd_copy"

SpecDeflect ==
    InitDeflect /\ [][NextDeflect]_vars
        /\ WF_vars(NextDeflect) /\ SF_vars(DeflectOffsetPasses)

SpecPure == InitPure /\ [][Next]_vars

----------------------------------------------------------------------------
(* Properties *)

Terminated == pc \in {"done", "raised"}

LibraryFailed == exc \in {"TransformError", "PredictError"}

(* The number of classifier queries of a scan no candidate of which is
   accepted, as a function of the budget *)
ScanQueries(v, s) ==
    CASE v \in KernelVariants \cup {"PixelDeflection", "ResizePadding"} ->
            IF s - 1 > 0 THEN s - 1 ELSE 0
      [] v = "BilateralFilter" -> s
      [] v \in {"JPEGCompression", "PCACompression"} -> 2 * s
      [] v = "DCTCompression" -> 4 * s
      [] v \in {"GaussianNoise", "SaltPepperNoise"} ->
            IF 10 * s - 1 > 0 THEN 10 * s - 1 ELSE 0
      [] OTHER -> 0

Top1(v, k) ==
    /\ k \in 0 .. Len(v) - 1
    /\ \A j \in 0 .. Len(v) - 1 : v[j + 1] <= v[k + 1]

(* C1: once try_accept_the_example has returned true the call has returned the
   record, and no model.predict call and no try_accept_the_example call is made
   afterwards -- in DCTCompression too, whose two loops are both left. *)
C1_ReturnsOnFirstAccept ==
    [][/\ accepted' => (pc' = "done" /\ ret' = Record)
       /\ accepted => (nPredict' = nPredict /\ nAccept' = nAccept)]_vars

C1_Witness ==
    /\ variant = "DCTCompression"
    /\ accepted /\ pc = "done"
    /\ patch_size = 0
    /\ step + 1 < LoopBound(variant, steps)

(* C2: for every denoiser and every budget, a call whose callback never
   accepts (and whose library calls do not fail) ends by returning the record
   it was given, after offering every step of its grid to the callback. *)
C2_ExhaustReturnsRecord ==
    (variant \in Denoisers /\ Terminated /\ ~accepted /\ ~LibraryFailed)
        => (pc = "done" /\ ret = Record /\ nAccept = ScanQueries(variant, steps))

(* C3: when the callback never accepts, denoising.input holds after the call
   the pixel values it held before it. *)
C3_InputUntouched ==
    (pc = "done" /\ ~accepted) => input = orig

(* C4: every evaluated step makes one model.predict call on its candidate and
   then one try_accept_the_example call, which receives that candidate and a
   top-1 index of the prediction obtained for it. *)
C4_PredictThenAccept ==
    /\ nAccept <= nPredict /\ nPredict <= nAccept + 1
    /\ pc = "loop" => nPredict = nAccept
    /\ pc = "predict" => (nPredict = nAccept /\ last_predict = NoPredict /\ last_accept = NoAccept)
    /\ pc = "accept" => (nPredict = nAccept + 1 /\ last_predict.img = img /\ last_accept = NoAccept)
    /\ last_accept # NoAccept =>
          /\ nPredict = nAccept
          /\ last_predict # NoPredict
          /\ last_accept.img = last_predict.img
          /\ last_accept.img = img
          /\ Top1(last_predict.result, last_accept.label)

C4_Witness ==
    /\ last_accept # NoAccept
    /\ last_predict.result = <<1, 1>>
    /\ last_accept.label = 0
    /\ nAccept = 2

(* C5: with an input image in [0, 1], every candidate handed to model.predict
   and to the callback has all its values in [0, 1]. *)
C5_CandidatesInRange ==
    InRange(orig) =>
        /\ pc \in {"predict", "accept"} => InRange(img)
        /\ InRange(last_predict.img)
        /\ InRange(last_accept.img)

C5_Witness ==
    /\ variant = "GaussianNoise"
    /\ orig = Ramp(3, 2, 1)
    /\ last_accept # NoAccept
    /\ \A t \in DOMAIN last_accept.img.px : last_accept.img.px[t] = FloatUnit

(* C6: for the deterministic variants the candidate produced at a parameter
   value is a function of the input image and of that parameter alone: two
   steps with the same parameter produce the same candidate. *)
C6_CandidateFunctionOfParam ==
    \A a \in cands : \A b \in cands : a[1] = b[1] => a[2] = b[2]

(* C7 as stated: with the default budget and a callback that never accepts, a
   scan makes between 5 and 20 model.predict calls. *)
C7_DefaultScan5To20 ==
    (variant \in Denoisers /\ steps = DefaultSteps(variant) /\ pc = "done" /\ ~accepted)
        => (5 <= nPredict /\ nPredict <= 20)

DefaultScanQueries(v) ==
    CASE v \in KernelVariants \cup {"PixelDeflection"} -> 4
      [] v = "BilateralFilter" -> 5
      [] v = "ResizePadding" -> 9
      [] v \in {"JPEGCompression", "PCACompression"} -> 20
      [] v = "DCTCompression" -> 40
      [] v \in {"GaussianNoise", "SaltPepperNoise"} -> 99
      [] OTHER -> 0

(* C7 as amended: with the default budget and a callback that never accepts, a
   scan makes 4 (Gaussian, median, box, mean blur, pixel deflection),
   5 (bilateral), 9 (resize and pad), 20 (JPEG, PCA), 40 (DCT) or 99 (Gaussian
   and salt-and-pepper noise) model.predict calls, one per evaluated step. *)
C7_DefaultScanCounts ==
    (variant \in Denoisers /\ steps = DefaultSteps(variant) /\ pc = "done" /\ ~accepted)
        => (nPredict = DefaultScanQueries(variant) /\ nAccept = nPredict)

C7_Witness ==
    /\ variant = "DCTCompression" /\ steps = DefaultSteps(variant)
    /\ pc = "done" /\ ~accepted
    /\ nPredict = 40

(* C8: from one evaluated step to the next the parameter moves one way: blur
   kernel size strictly up, JPEG quality strictly down, DCT sigma strictly up
   within a patch size, PCA dimension not up, noise variance and
   salt-and-pepper proportion strictly up, deflection count not down,
   max_h and max_w not down. *)
MonotoneStep(v, p, q) ==
    CASE v \in KernelVariants \cup {"BilateralFilter"} -> p[1] < q[1]
      [] v = "JPEGCompression" -> q[1] < p[1]
      [] v = "DCTCompression" -> (p[1] = q[1] => p[2] < q[2])
      [] v = "PCACompression" -> q[1] <= p[1]
      [] v \in {"GaussianNoise", "SaltPepperNoise"} -> p[1] < q[1]
      [] v = "PixelDeflection" -> p[2] <= q[2]
      [] v = "ResizePadding" -> p[1] <= q[1] /\ p[2] <= q[2]
      [] OTHER -> TRUE

C8_ParamMonotone ==
    prev_param # NoParam => MonotoneStep(variant, prev_param, param)

(* C9: a transform or a model.predict that raises ends the call there: the
   exception leaves _apply and __call__, the callback is not called for the
   step, nothing is returned and nothing happens afterwards; the base class's
   _apply raises NotImplementedError. *)
C9_FailurePropagates ==
    [][/\ pc # "raised"
       /\ (TransformRaises \/ PredictRaises) =>
             /\ pc' = "raised" /\ exc' \in {"TransformError", "PredictError"}
             /\ ret' = None
             /\ nAccept' = nAccept /\ nPredict' = nPredict /\ step' = step
       /\ (variant = "Denoise" /\ pc = "idle") =>
             (pc' = "raised" /\ exc' = "NotImplementedError" /\ ret' = None)]_vars

C9_Witness ==
    /\ pc = "raised" /\ exc = "PredictError"
    /\ variant = "JPEGCompression"
    /\ nAccept = 1 /\ nPredict = 1
    /\ step + 1 < LoopBound(variant, steps)

(* C10: with a callback that never accepts and a budget steps >= 0 the number
   of model.predict calls, and of callback calls, is max(steps - 1, 0) for the
   kernel blurs, pixel deflection and resize-and-pad, steps for the bilateral
   filter, 2 * steps for JPEG and PCA, 4 * steps for DCT and
   max(10 * steps - 1, 0) for the two noise variants. *)
C10_QueryCounts ==
    (variant \in Denoisers /\ Terminated /\ ~accepted /\ ~LibraryFailed)
        => (nPredict = ScanQueries(variant, steps) /\ nAccept = nPredict)

C10_Witness ==
    /\ variant = "SaltPepperNoise" /\ steps = 2
    /\ pc = "done" /\ ~accepted
    /\ nPredict = 19 /\ nAccept = 19

(* C11: JPEGCompression encodes step k at quality 100 - 5 * k, and for every
   budget every quality handed to the encoder lies in 5 .. 100. *)
C11_JpegQualityInRange ==
    (variant = "JPEGCompression" /\ pc \in {"predict", "accept"})
        => (param[1] = 100 - 5 * step /\ 5 <= param[1] /\ param[1] <= 100)

(* C12: in PCACompression, for a height H >= 1 and steps >= 1, the retained
   dimension of every step lies in 1 .. H, the first step retains H, and with
   H < 2 * steps the stride is 0 and every step retains H. *)
C12_PcaDimInRange ==
    (variant = "PCACompression" /\ pc \in {"predict", "accept"})
        => /\ steps >= 1 /\ orig.H >= 1
           /\ 1 <= param[1] /\ param[1] <= orig.H
           /\ step = 0 => param[1] = orig.H
           /\ orig.H < 2 * steps => (stride = 0 /\ param[1] = orig.H)

C12_Witness ==
    /\ variant = "PCACompression" /\ pc = "accept"
    /\ orig.H = 6 /\ steps = 2 /\ step = 3
    /\ param[1] = 3

(* C15: at every evaluated step of ResizePadding and for every outcome of the
   draws, resize_h is in 0 .. max_h and resize_w in 0 .. max_w, the four
   paddings are non-negative, resize_h + pad_left + pad_right = max_h and
   resize_w + pad_top + pad_bottom = max_w, with max_h = int(H*step/steps/4)
   and max_w = int(W*step/steps/4). *)
C15_ResizePadBudget ==
    (variant = "ResizePadding" /\ pc \in {"predict", "accept"})
        => /\ draw.kind = "resize_pad"
           /\ 1 <= step /\ step < steps
           /\ 4 * steps * draw.max_h <= orig.H * step
           /\ orig.H * step < 4 * steps * (draw.max_h + 1)
           /\ 4 * steps * draw.max_w <= orig.W * step
           /\ orig.W * step < 4 * steps * (draw.max_w + 1)
           /\ 0 <= draw.resize_h /\ draw.resize_h <= draw.max_h
           /\ 0 <= draw.resize_w /\ draw.resize_w <= draw.max_w
           /\ draw.pad_left >= 0 /\ draw.pad_right >= 0
           /\ draw.pad_top >= 0 /\ draw.pad_bottom >= 0
           /\ draw.resize_h + draw.pad_left + draw.pad_right = draw.max_h
           /\ draw.resize_w + draw.pad_top + draw.pad_bottom = draw.max_w

C15_Witness ==
    /\ variant = "ResizePadding" /\ pc = "accept"
    /\ draw.kind = "resize_pad"
    /\ draw.max_h = 1 /\ draw.max_w = 2
    /\ draw.resize_h = 1 /\ draw.resize_w = 1 /\ draw.pad_top = 1

(* C13: in pixel_deflection on an image with H >= 2 and W >= 2, every copy
   reads a source inside the image (row x+a in 1..H-1, column y+b in 1..W-1)
   and writes a target inside it (x in 0..H-2, y in 0..W-2); every drawn
   target has an offset that passes the rejection test; and under fair draws
   the function returns, after exactly int(proportion*H*W) rounds. *)
C13_DeflectSafe ==
    /\ pc = "pd_copy" =>
          /\ 1 <= draw.x + draw.a /\ draw.x + draw.a <= input.H - 1
          /\ 1 <= draw.y + draw.b /\ draw.y + draw.b <= input.W - 1
          /\ 0 <= draw.x /\ draw.x <= input.H - 2
          /\ 0 <= draw.y /\ draw.y <= input.W - 2
    /\ pc = "pd_offset" =>
          \E a \in RandInt(0 - Window, Window), b \in RandInt(0 - Window, Window) :
              PassesTest([draw EXCEPT !.a = a, !.b = b])
    /\ pc = "pd_done" =>
          /\ draw.rounds = Deflections(orig, step)
          /\ draw.deflections = 0
    /\ pc # "pd_raised"

C13_DeflectionTerminates == [](C13_DeflectSafe) /\ <>(pc = "pd_done")

C13_Witness ==
    /\ pc = "pd_done" /\ draw.rounds = 2
    /\ input.C = 2 /\ input # orig

(* C14: within one round of pixel_deflection one target (x, y) and one offset
   (a, b) are used for every channel, and the copy is one-way: the source
   pixel keeps its value. *)
C14_SameDrawAllChannels ==
    pc = "pd_for" =>
        /\ \A j, k \in DOMAIN draw.used :
              /\ draw.used[j].x = draw.used[k].x /\ draw.used[j].y = draw.used[k].y
              /\ draw.used[j].a = draw.used[k].a /\ draw.used[j].b = draw.used[k].b
        /\ \A j \in DOMAIN draw.used : input.px[draw.used[j].src] = draw.used[j].read

====
